---- MODULE Spec2Model ----
(***************************************************************************)
(* Conversation / streaming / concurrency core of grokprime.               *)
(*                                                                         *)
(* Text is a sequence of string tokens.  The literal                       *)
(* "[Previous conversation summary:" is one token (MARKER), so that        *)
(* format!, contains, strip_prefix and strip_suffix are computed on the    *)
(* text and not assumed.                                                   *)
(***************************************************************************)
EXTENDS Naturals, Integers, Sequences, FiniteSets, TLC

VARIABLES
    agents,         \* AgentManager.agents : id -> AgentInfo
    current_agent,  \* AgentManager.current_agent (0 = None)
    agent_order,    \* AgentManager.agent_order
    tasks,          \* every tokio task spawned so far, in spawn order
    historyFile,    \* personas/{name}/history/{name}_history.json, per persona
    archives,       \* personas/archives/{name}_{timestamp}.json: per persona, the number
                    \* of snapshots written and the content of the newest one
    conv,           \* a Connection's GrokConversation driven directly through its API
    parser          \* the stream loop of an adapter fed with the chunks of one byte stream

vars == <<agents, current_agent, agent_order, tasks, historyFile, archives, conv, parser>>

(***************************************************************************)
(* Bounds of the model.                                                    *)
(***************************************************************************)
MaxTasks == 2
MaxDeltas == 2
MaxLogLen == 6
MaxArchives == 2
MaxTurns == 2
ScenTurns == 23
MaxLines == 2
MaxAgents == 3
MaxAgentTasks == 1

(***************************************************************************)
(* Program constants.                                                      *)
(***************************************************************************)
DefaultSummaryThreshold == 20
DefaultMessageLimit == 12

(***************************************************************************)
(* Text.                                                                   *)
(***************************************************************************)
MARKER == "[Previous conversation summary:"

NoId == "none"

Msg(role, content) == [role |-> role, content |-> content]

Some(v) == [some |-> TRUE, val |-> v]
None == [some |-> FALSE, val |-> <<>>]

\* str::contains("[Previous conversation summary:")
ContainsMarker(content) == \E i \in 1..Len(content) : content[i] = MARKER

\* format!("[Previous conversation summary: {}]", summary)
WrapSummary(summary) == <<MARKER, " ">> \o summary \o <<"]">>

\* str::strip_prefix("[Previous conversation summary: ")
StripMarkerPrefix(content) ==
    IF Len(content) >= 2 /\ content[1] = MARKER /\ content[2] = " "
    THEN Some(SubSeq(content, 3, Len(content)))
    ELSE None

\* mutant: the closing bracket is not removed
StripBracketSuffix_Keep(content) == Some(content)

\* str::strip_suffix("]")
StripBracketSuffix(content) ==
    IF Len(content) >= 1 /\ content[Len(content)] = "]"
    THEN Some(SubSeq(content, 1, Len(content) - 1))
    ELSE None

\* format!("> {}", content)
PromptLine(content) == <<">", " ">> \o content

\* str::starts_with('>')
StartsWithPrompt(line) == Len(line) >= 1 /\ line[1] = ">"

(***************************************************************************)
(* Personas.                                                               *)
(***************************************************************************)
Persona(name, enabled, limit, threshold, provider) ==
    [ name |-> name,
      system_prompt |-> <<"sys", name>>,
      enable_history |-> enabled,
      history_message_limit |-> limit,
      summary_threshold |-> threshold,
      api_provider |-> provider,
      temperature |-> None ]

\* the defaults of config.rs
Shadow == Persona("shadow", TRUE, DefaultMessageLimit, DefaultSummaryThreshold, "grok")
\* personas whose yaml sets small thresholds, so that compaction is reached early
Friday == Persona("friday", TRUE, 1, 2, "grok")
Sonnet == Persona("sonnet", TRUE, 1, 2, "claude")
\* a persona whose yaml sets a temperature
Zero == [Persona("zero", TRUE, 0, 1, "grok") EXCEPT !.temperature = Some(<<"0.2">>)]
Plain == Persona("plain", FALSE, 1, 2, "grok")
Wide == Persona("wide", TRUE, 3, 2, "grok")

PersonaNames == {"shadow", "friday", "sonnet", "zero", "plain", "wide"}

(***************************************************************************)
(* GrokConversation.                                                       *)
(***************************************************************************)
NewConversation(persona) ==
    [ local_history |-> << Msg("system", persona.system_prompt) >>,
      last_response_id |-> NoId,
      persona |-> persona ]

WithHistory(persona, loaded_history) ==
    [ local_history |-> loaded_history,
      last_response_id |-> NoId,
      persona |-> persona ]

AddUserMessage(c, content) ==
    [c EXCEPT !.local_history = Append(@, Msg("user", content))]

AddAssistantMessage(c, content) ==
    [c EXCEPT !.local_history = Append(@, Msg("assistant", content))]

SetLastResponseId(c, id) == [c EXCEPT !.last_response_id = id]

\* GLOBAL_CONFIG.grok
ModelName == <<"grok-4-fast">>
DefaultTemperature == <<"default_temperature">>
StreamEnabled == TRUE

\* persona.temperature.unwrap_or(GLOBAL_CONFIG.grok.default_temperature)
Temperature(persona) ==
    IF persona.temperature.some THEN persona.temperature.val ELSE DefaultTemperature

\* a request that carries the whole log whatever the token
BuildRequest_FullLog(c) ==
    [ model |-> ModelName,
      temperature |-> Temperature(c.persona),
      input |-> c.local_history,
      previous_response_id |-> c.last_response_id,
      stream |-> StreamEnabled ]

BuildRequest(c) ==
    [ model |-> ModelName,
      temperature |-> Temperature(c.persona),
      input |-> IF c.last_response_id = NoId
                THEN c.local_history
                ELSE IF Len(c.local_history) > 0
                     THEN << c.local_history[Len(c.local_history)] >>
                     ELSE << >>,
      previous_response_id |-> c.last_response_id,
      stream |-> StreamEnabled ]

\* build_request(&self) dropping the message it sends from the log
BuildRequestSelf_Consume(c) ==
    [c EXCEPT !.local_history = SubSeq(@, 1, Len(@) - 1)]

\* the conversation after build_request(&self)
BuildRequestSelf(c) == c

\* ClaudeClient::adapt_request: the first system message becomes the system
\* field, the system messages are taken out of the list, and the request's
\* previous_response_id is not part of the payload
IsSystem(m) == m.role = "system"
IsNotSystem(m) == m.role # "system"

AdaptRequest(request) ==
    LET sys == SelectSeq(request.input, IsSystem)
    IN [ model |-> <<"claude-sonnet-4-20250514">>,
         system |-> IF sys = << >> THEN << >> ELSE sys[1].content,
         messages |-> SelectSeq(request.input, IsNotSystem),
         temperature |-> Some(request.temperature),
         stream |-> TRUE ]

\* the filter of should_summarize
CountsTowardThreshold(m) == m.role # "system" \/ ~ContainsMarker(m.content)

MessageCount(h) == Cardinality({i \in 1..Len(h) : CountsTowardThreshold(h[i])})

ShouldSummarize(c) ==
    IF ~c.persona.enable_history
    THEN FALSE
    ELSE MessageCount(c.local_history) > c.persona.summary_threshold

ClearHistory(c) ==
    IF Len(c.local_history) > 0
    THEN [c EXCEPT !.local_history = << c.local_history[1] >>,
                   !.last_response_id = NoId]
    ELSE c

ReplaceHistory(c, new_history) == [c EXCEPT !.local_history = new_history]

(***************************************************************************)
(* HistoryManager.                                                         *)
(***************************************************************************)
\* the content of a history file: valid is FALSE when the bytes of the file
\* are not the JSON of a ConversationHistory
NoFile == [ exists |-> FALSE, valid |-> FALSE, summary |-> None,
            recent_messages |-> << >>, total_message_count |-> 0 ]

\* a file that serde_json::from_str rejects; the other fields are what is
\* left readable in it
CorruptFile == [ exists |-> TRUE, valid |-> FALSE, summary |-> Some(<<"junk">>),
                 recent_messages |-> << Msg("user", <<"junk">>) >>,
                 total_message_count |-> 1 ]

\* mutant: a file is loaded whatever its content
LoadOk_Lenient(file) == file.exists

\* load_persona_history returns Ok: read_to_string and from_str both succeed
LoadOk(file) == file.exists /\ file.valid

IsSummaryMessage(m) == m.role = "system" /\ ContainsMarker(m.content)

\* .find(|msg| ...).and_then(strip_prefix .and_then strip_suffix)
ExistingSummary(h) ==
    LET idx == {i \in 1..Len(h) : IsSummaryMessage(h[i])}
    IN IF idx = {} THEN None
       ELSE LET first == CHOOSE i \in idx : \A j \in idx : i <= j
                body == StripMarkerPrefix(h[first].content)
            IN IF body.some THEN StripBracketSuffix(body.val) ELSE None

\* a record that keeps every message after the system prompt
RecentStart_All(c) == 1

\* index (0-based, as in the code) of the first message kept in recent_messages
RecentStart(c) ==
    IF Len(c.local_history) > c.persona.history_message_limit + 1
    THEN Len(c.local_history) - c.persona.history_message_limit
    ELSE 1

\* the ConversationHistory value that save_persona_history serializes
SavedRecord(c) ==
    [ exists |-> TRUE,
      valid |-> TRUE,
      summary |-> ExistingSummary(c.local_history),
      recent_messages |-> SubSeq(c.local_history, RecentStart(c) + 1, Len(c.local_history)),
      total_message_count |-> Len(c.local_history) - 1 ]

\* mutant: the system prompt is not put in front of the loaded messages
BuildHistoryFromLoaded_NoSystem(persona, loaded) ==
    (IF loaded.summary.some
     THEN << Msg("user", WrapSummary(loaded.summary.val)) >>
     ELSE << >>)
    \o loaded.recent_messages

BuildHistoryFromLoaded(persona, loaded) ==
    << Msg("system", persona.system_prompt) >>
    \o (IF loaded.summary.some
        THEN << Msg("system", WrapSummary(loaded.summary.val)) >>
        ELSE << >>)
    \o loaded.recent_messages

\* Connection::new_without_output, given the content of the persona's history file
NewWithoutOutput(persona, file) ==
    IF persona.enable_history
    THEN IF LoadOk(file)
         THEN WithHistory(persona, BuildHistoryFromLoaded(persona, file))
         ELSE NewConversation(persona)
    ELSE NewConversation(persona)

(***************************************************************************)
(* Connection::summarize_history, the parts without I/O.                   *)
(***************************************************************************)
\* TRUE when summarize_history goes on to the historian request
HasOldSpan(c) == Len(c.local_history) > c.persona.history_message_limit + 1

\* cutoff_index (0-based, as in the code)
CutoffIndex(c) == Len(c.local_history) - c.persona.history_message_limit

\* local_history[1..cutoff_index]
MessagesToSummarize(c) == SubSeq(c.local_history, 2, CutoffIndex(c))

\* vec![system_prompt, summary_message] extended by local_history[cutoff_index..]
NewHistory(c, summary) ==
    << c.local_history[1], Msg("system", WrapSummary(summary)) >>
    \o SubSeq(c.local_history, CutoffIndex(c) + 1, Len(c.local_history))

NoArchive == [count |-> 0, newest |-> << >>]

\* mutant: no snapshot is written
ArchiveFullHistory_Skip(arch, c) == arch

\* archive_full_history: one more snapshot, holding the whole local_history
ArchiveFullHistory(arch, c) ==
    [arch EXCEPT ![c.persona.name] =
        [count |-> @.count + 1, newest |-> c.local_history]]

(***************************************************************************)
(* The stream loop of GrokClient::send_streaming_request and of            *)
(* ClaudeClient::send_streaming.  A byte stream is a sequence of byte      *)
(* tokens: "C3" and "A9" are the two bytes of one UTF-8 character, every   *)
(* other token stands for ASCII bytes that are never split apart.          *)
(***************************************************************************)
NL == "\n"

\* String::from_utf8_lossy on the bytes of one network chunk
RECURSIVE FromUtf8Lossy(_)
FromUtf8Lossy(bytes) ==
    IF bytes = << >> THEN << >>
    ELSE IF bytes[1] = "C3" /\ Len(bytes) >= 2 /\ bytes[2] = "A9"
    THEN << "e-acute" >> \o FromUtf8Lossy(SubSeq(bytes, 3, Len(bytes)))
    ELSE IF bytes[1] \in {"C3", "A9"}
    THEN << "U+FFFD" >> \o FromUtf8Lossy(Tail(bytes))
    ELSE << bytes[1] >> \o FromUtf8Lossy(Tail(bytes))

\* the "type" of the JSON object that carries text, and of the one whose id
\* the adapter keeps
DeltaType(provider) ==
    IF provider = "claude" THEN "content_block_delta" ELSE "response.output_text.delta"
IdType(provider) ==
    IF provider = "claude" THEN "message_start" ELSE "response.completed"

\* the characters a JSON string of the model is made of
TextChars == {"H", "e-acute", "U+FFFD"}

\* serde_json::from_str succeeds: the type, then the characters of one string
IsJsonObject(data) ==
    /\ Len(data) >= 1
    /\ \A i \in 2..Len(data) : data[i] \in TextChars

ParserStart(provider, stream) ==
    [ provider |-> provider, stream |-> stream, wire |-> stream,
      line_buffer |-> << >>, full_reply |-> << >>, response_id |-> None,
      events |-> << >> ]

NoParser == ParserStart("grok", << >>)

\* the body of the inner while loop for one line
ParseLine(p, line) ==
    IF Len(line) >= 1 /\ line[1] = "data: " /\ IsJsonObject(Tail(line))
    THEN LET data == Tail(line)
             text == Tail(data)
         IN IF data[1] = DeltaType(p.provider)
            THEN [p EXCEPT !.full_reply = @ \o text,
                           !.events = Append(@, << "Delta", text >>)]
            ELSE IF data[1] = IdType(p.provider)
            THEN [p EXCEPT !.response_id = Some(text)]
            ELSE p
    ELSE p

\* while let Some(newline_pos) = line_buffer.find('\n')
RECURSIVE DrainLines(_)
DrainLines(p) ==
    LET buf == p.line_buffer
        at == {i \in 1..Len(buf) : buf[i] = NL}
    IN IF at = {} THEN p
       ELSE LET pos == CHOOSE i \in at : \A j \in at : i <= j
            IN DrainLines(ParseLine([p EXCEPT !.line_buffer = SubSeq(buf, pos + 1, Len(buf))],
                                    SubSeq(buf, 1, pos - 1)))

\* the body of the outer while loop for one network chunk
PushChunk(p, bytes) ==
    DrainLines([p EXCEPT !.line_buffer = @ \o FromUtf8Lossy(bytes)])

RECURSIVE FeedAll(_, _)
FeedAll(p, chunks) ==
    IF chunks = << >> THEN p ELSE FeedAll(PushChunk(p, Head(chunks)), Tail(chunks))

\* the stream cut after every newline
RECURSIVE SplitLines(_)
SplitLines(stream) ==
    LET at == {i \in 1..Len(stream) : stream[i] = NL}
    IN IF at = {} THEN (IF stream = << >> THEN << >> ELSE << stream >>)
       ELSE LET pos == CHOOSE i \in at : \A j \in at : i <= j
            IN << SubSeq(stream, 1, pos) >> \o SplitLines(SubSeq(stream, pos + 1, Len(stream)))

\* what the stream loop hands to its caller and to the channel
ParserResult(p) ==
    [ events |-> p.events, full_reply |-> p.full_reply, response_id |-> p.response_id ]

\* the lines a server sends
WireLines(provider) ==
    { << "data: ", DeltaType(provider), "H", NL >>,
      << "data: ", DeltaType(provider), "C3", "A9", NL >>,
      << "data: ", IdType(provider), "H", NL >>,
      << "data: ", "[DONE]", NL >>,
      << ": keep-alive", NL >>,
      << "data: ", DeltaType(provider), "H" >> }

RECURSIVE StreamsUpTo(_, _)
StreamsUpTo(provider, n) ==
    IF n = 0 THEN { << >> }
    ELSE LET shorter == StreamsUpTo(provider, n - 1)
         IN shorter \cup {s \o l : s \in shorter, l \in WireLines(provider)}

\* stream.next().await yields the next n bytes of the stream as one chunk
ParserReceive(n) ==
    /\ n \in 1..Len(parser.wire)
    /\ parser' = PushChunk([parser EXCEPT !.wire = SubSeq(@, n + 1, Len(@))],
                           SubSeq(parser.wire, 1, n))
    /\ UNCHANGED <<agents, current_agent, agent_order, tasks, historyFile, archives, conv>>

(***************************************************************************)
(* A Connection used sequentially through its API (the conversation is     *)
(* owned and mutated by its caller, as in Connection's own methods).       *)
(***************************************************************************)
ConvPersonas == {Friday, Zero, Plain, Wide}
ConvTexts == { <<"hi">> }
ConvReplies == { <<"ok">> }
\* the summary text the historian answers with, one text per persona
HistorianSummary(name) ==
    CASE name = "friday" -> <<"x", "]">>
      [] name = "zero" -> << >>
      [] OTHER -> <<"s">>
HistorianOutcomes == {"ok", "no_historian_persona", "request_failed", "archive_failed"}

LastRole(h) == h[Len(h)].role

\* mutant: save_persona_history returns without writing
WriteHistory_Skip(file, c, write_ok) == file

\* std::fs::write of save_persona_history: on failure the file keeps its content
WriteHistory(file, c, write_ok) ==
    IF write_ok THEN [file EXCEPT ![c.persona.name] = SavedRecord(c)] ELSE file

\* summarize_history run to its end: the conversation it leaves
SummarizedConversation(c, outcome, summary) ==
    IF outcome = "ok" /\ HasOldSpan(c)
    THEN ReplaceHistory(c, NewHistory(c, summary))
    ELSE c

\* summarize_history run to its end: TRUE when it returns Ok
SummarizeReturnsOk(c, outcome) ==
    \/ outcome = "ok"
    \/ outcome # "no_historian_persona" /\ ~HasOldSpan(c)

\* summarize_history run to its end: the archive directory it leaves
SummarizedArchives(arch, c, outcome) ==
    IF outcome = "ok" /\ HasOldSpan(c) THEN ArchiveFullHistory(arch, c) ELSE arch

ConvAddUser(text) ==
    /\ Len(conv.local_history) < MaxLogLen
    /\ conv' = AddUserMessage(conv, text)
    /\ UNCHANGED <<agents, parser, current_agent, agent_order, tasks, historyFile, archives>>

\* handle_response_streaming after a successful round trip
ConvHandleResponse(reply, write_ok, outcome) ==
    /\ Len(conv.local_history) < MaxLogLen
    /\ archives[conv.persona.name].count < MaxArchives
    /\ LastRole(conv.local_history) = "user"
    /\ LET c1 == SetLastResponseId(AddAssistantMessage(conv, reply), "r")
           f1 == WriteHistory(historyFile, c1, write_ok)
           c2 == SummarizedConversation(c1, outcome, HistorianSummary(c1.persona.name))
       IN IF ~c1.persona.enable_history
          THEN /\ conv' = c1
               /\ UNCHANGED <<historyFile, archives>>
          ELSE IF ~ShouldSummarize(c1)
          THEN /\ conv' = c1
               /\ historyFile' = f1
               /\ UNCHANGED archives
          ELSE /\ conv' = c2
               /\ archives' = SummarizedArchives(archives, c1, outcome)
               /\ IF SummarizeReturnsOk(c1, outcome)
                  THEN historyFile' = WriteHistory(f1, c2, write_ok)
                  ELSE historyFile' = f1
    /\ UNCHANGED <<agents, parser, current_agent, agent_order, tasks>>

\* the body of the summarization task: summarize_history, then save on success
ConvSummarizeNow(write_ok, outcome) ==
    /\ archives[conv.persona.name].count < MaxArchives
    /\ conv' = SummarizedConversation(conv, outcome, HistorianSummary(conv.persona.name))
    /\ archives' = SummarizedArchives(archives, conv, outcome)
    /\ IF SummarizeReturnsOk(conv, outcome)
       THEN historyFile' = WriteHistory(historyFile, conv', write_ok)
       ELSE UNCHANGED historyFile
    /\ UNCHANGED <<agents, parser, current_agent, agent_order, tasks>>

\* Connection::save_persona_history
ConvSave ==
    /\ historyFile' = WriteHistory(historyFile, conv, TRUE)
    /\ UNCHANGED <<agents, parser, current_agent, agent_order, tasks, archives, conv>>

\* a fresh Session of the same persona: Connection::new_without_output
ConvReload ==
    /\ conv' = NewWithoutOutput(conv.persona, historyFile[conv.persona.name])
    /\ UNCHANGED <<agents, parser, current_agent, agent_order, tasks, historyFile, archives>>

\* GrokConversation::clear_history
ConvClear ==
    /\ conv' = ClearHistory(conv)
    /\ UNCHANGED <<agents, parser, current_agent, agent_order, tasks, historyFile, archives>>

InitFiles ==
    /\ historyFile = [n \in PersonaNames |-> NoFile]
    /\ archives = [n \in PersonaNames |-> NoArchive]

InitConv ==
    /\ \E p \in ConvPersonas : conv = NewWithoutOutput(p, NoFile)
    /\ InitFiles
    /\ agents = << >>
    /\ current_agent = 0
    /\ parser = NoParser
    /\ agent_order = << >>
    /\ tasks = << >>

NextConv ==
    \/ \E text \in ConvTexts : ConvAddUser(text)
    \/ \E reply \in ConvReplies, write_ok \in BOOLEAN, outcome \in HistorianOutcomes :
          ConvHandleResponse(reply, write_ok, outcome)
    \/ \E write_ok \in BOOLEAN, outcome \in HistorianOutcomes :
          ConvSummarizeNow(write_ok, outcome)
    \/ ConvSave
    \/ ConvReload
    \/ ConvClear

SpecConv == InitConv /\ [][NextConv]_vars

(***************************************************************************)
(* An adapter reading one byte stream that the network cuts into chunks at *)
(* any byte.                                                               *)
(***************************************************************************)
InitParse ==
    /\ \E provider \in {"grok", "claude"} :
          \E stream \in StreamsUpTo(provider, MaxLines) :
              parser = ParserStart(provider, stream)
    /\ InitFiles
    /\ conv = NewConversation(Friday)
    /\ agents = << >>
    /\ current_agent = 0
    /\ agent_order = << >>
    /\ tasks = << >>

NextParse == \E n \in 1..(4 * MaxLines + 1) : ParserReceive(n)

SpecParse == InitParse /\ [][NextParse]_vars

(***************************************************************************)
(* Stream chunks and the per-Session channel.                              *)
(* The field task records which task sent the chunk; the program does not  *)
(* carry it.                                                               *)
(***************************************************************************)
Chunk(type, text, id, t) == [type |-> type, text |-> text, response_id |-> id, task |-> t]
DeltaChunk(t, text) == Chunk("Delta", text, NoId, t)
\* mutant: the end of a reply is reported by an Info chunk
CompleteChunk_AsInfo(t, id, full_reply) == Chunk("Info", full_reply, id, t)

CompleteChunk(t, id, full_reply) == Chunk("Complete", full_reply, id, t)
\* mutant: a failure is reported by a Complete chunk
ErrorChunk_AsComplete(t, text) == Chunk("Complete", text, NoId, t)

\* a failure reported as a notice
ErrorChunk_AsInfo(t, text) == Chunk("Info", text, NoId, t)

ErrorChunk(t, text) == Chunk("Error", text, NoId, t)
InfoChunk(t, text) == Chunk("Info", text, NoId, t)

\* a sender that is not tied to one Session: every channel gets the events
ChanSend_Broadcast(ags, a, chunks) ==
    [b \in DOMAIN ags |-> [ags[b] EXCEPT !.chan = @ \o chunks]]

\* UnboundedSender::send of each chunk in turn; nothing is delivered once the
\* receiver was dropped with its AgentInfo
ChanSend(ags, a, chunks) ==
    IF a \in DOMAIN ags THEN [ags EXCEPT ![a].chan = @ \o chunks] ELSE ags

(***************************************************************************)
(* AgentInfo.                                                              *)
(***************************************************************************)
\* AgentInfo::new; commits lists the tasks whose Complete chunk was applied
NewAgentInfo(persona, file) ==
    [ persona_name |-> persona.name,
      connection |-> NewWithoutOutput(persona, file),
      messages |-> << >>,
      is_waiting |-> FALSE,
      active_task |-> 0,
      chan |-> << >>,
      commits |-> << >> ]

\* AgentInfo::add_message
AddMessage(agent, line) == [agent EXCEPT !.messages = Append(@, line)]

(***************************************************************************)
(* Tasks.  A task waits at an await in pc "http", "stream" or "historian"; *)
(* in pc "start" and "post" it runs code that has no await.                *)
(***************************************************************************)
AwaitPcs == {"http", "stream", "historian"}

\* the task of SummarizeCommand builds no request from the Session's log
NoRequest ==
    [ model |-> << >>, temperature |-> << >>, input |-> << >>,
      previous_response_id |-> NoId, stream |-> TRUE ]

\* request: what handle_response_streaming builds before its first await;
\* save_result: the result of the task's last call of save_persona_history;
\* status: response.status().is_success() of the task's request
NewTask(a, kind, pc, c) ==
    [ agent |-> a, kind |-> kind, pc |-> pc, aborted |-> FALSE,
      conv |-> IF kind = "send" THEN BuildRequestSelf(c) ELSE c,
      request |-> IF kind = "send" THEN BuildRequest(c) ELSE NoRequest,
      full_reply |-> << >>, response_id |-> NoId, deltas |-> 0,
      started |-> FALSE, terminal |-> FALSE, summarize_result |-> "none",
      save_result |-> "none", status |-> "none" ]

\* JoinHandle::abort: a task waiting at an await never runs again; a task that
\* is running goes on to its next await
Abort(ts, t) ==
    IF t = 0 THEN ts
    ELSE [ts EXCEPT ![t].aborted = TRUE,
                    ![t].pc = IF @ \in AwaitPcs THEN "cancelled" ELSE @]

ResponseId(t) == "r" \o ToString(t)

FragmentText(t, k) == << "t" \o ToString(t), IF k = 1 THEN "Hel" ELSE "lo" >>

SendTexts == { <<"hi">> }
SessionPersonas == {Friday, Sonnet, Plain}

(***************************************************************************)
(* Commands, run on the consumer side.                                     *)
(***************************************************************************)
\* SendMessageCommand::execute
SendMessageCommand(content) ==
    /\ current_agent # 0
    /\ LET a == current_agent
           t == Len(tasks) + 1
           aborted == Abort(tasks, agents[a].active_task)
       IN /\ agents' = [agents EXCEPT
                          ![a].messages = Append(@, PromptLine(content)),
                          ![a].is_waiting = TRUE,
                          ![a].active_task = t]
          /\ tasks' = Append(aborted,
                             NewTask(a, "send", "http",
                                     AddUserMessage(agents[a].connection, content)))
    /\ UNCHANGED <<parser, current_agent, agent_order, historyFile, archives, conv>>

\* SummarizeCommand::execute
SummarizeCommand ==
    /\ current_agent # 0
    /\ tasks' = Append(tasks, NewTask(current_agent, "summarize", "start",
                                      agents[current_agent].connection))
    /\ UNCHANGED <<agents, parser, current_agent, agent_order, historyFile, archives, conv>>

\* one chunk taken by try_recv in poll_channels
ApplyChunk(agent, chunk) ==
    CASE chunk.type = "Delta" ->
            IF Len(agent.messages) > 0
               /\ ~StartsWithPrompt(agent.messages[Len(agent.messages)])
            THEN [agent EXCEPT !.messages[Len(agent.messages)] = @ \o chunk.text]
            ELSE AddMessage(agent, chunk.text)
      [] chunk.type = "Complete" ->
            [agent EXCEPT
                !.connection = AddAssistantMessage(
                                   SetLastResponseId(@, chunk.response_id), chunk.text),
                !.is_waiting = FALSE,
                !.active_task = 0,
                !.commits = Append(@, chunk.task)]
      [] chunk.type = "Error" ->
            [AddMessage(AddMessage(agent, <<"Error: ">> \o chunk.text),
                        <<"Type you message again to retry.">>)
                EXCEPT !.is_waiting = FALSE, !.active_task = 0]
      [] OTHER -> agent

RECURSIVE ApplyChunks(_, _)
ApplyChunks(agent, chunks) ==
    IF chunks = << >> THEN agent
    ELSE ApplyChunks(ApplyChunk(agent, Head(chunks)), Tail(chunks))

\* poll_channels draining the channel of the active Session alone
PollChannels_ActiveOnly ==
    /\ current_agent \in DOMAIN agents
    /\ agents[current_agent].chan # << >>
    /\ agents' = [agents EXCEPT ![current_agent] =
                    [ApplyChunks(@, @.chan) EXCEPT !.chan = << >>]]
    /\ UNCHANGED <<parser, current_agent, agent_order, tasks, historyFile, archives, conv>>

\* AgentManager::poll_channels: every pending chunk of every agent
PollChannels ==
    /\ \E a \in DOMAIN agents : agents[a].chan # << >>
    /\ agents' = [a \in DOMAIN agents |->
                    [ApplyChunks(agents[a], agents[a].chan) EXCEPT !.chan = << >>]]
    /\ UNCHANGED <<parser, current_agent, agent_order, tasks, historyFile, archives, conv>>

(***************************************************************************)
(* AgentManager: creation, removal and cycling of Sessions.  An id stands  *)
(* for a Uuid::new_v4(): it is never one that the map or a task still      *)
(* holds.                                                                  *)
(***************************************************************************)
FreshIds ==
    (1..MaxAgents) \ (DOMAIN agents \cup {tasks[t].agent : t \in DOMAIN tasks})

\* a retain that removes nothing
Retain_KeepAll(order, id) == order

\* agent_order.retain(|&x| x != id)
RECURSIVE Retain(_, _)
Retain(order, id) ==
    IF order = << >> THEN << >>
    ELSE IF Head(order) = id THEN Retain(Tail(order), id)
    ELSE << Head(order) >> \o Retain(Tail(order), id)

\* agent_order.last().cloned()
LastOf(order) == IF order = << >> THEN 0 ELSE order[Len(order)]

\* the position of id in the order list, 0 when absent
PositionOf(order, id) ==
    IF \E i \in 1..Len(order) : order[i] = id
    THEN CHOOSE i \in 1..Len(order) : order[i] = id /\ \A j \in 1..(i - 1) : order[j] # id
    ELSE 0

\* AgentManager::add_agent; AgentInfo::new reads the persona's history file
AddAgent(id, persona) ==
    /\ agents' = [a \in DOMAIN agents \cup {id} |->
                    IF a = id THEN NewAgentInfo(persona, historyFile[persona.name])
                    ELSE agents[a]]
    /\ agent_order' = Append(agent_order, id)
    /\ current_agent' = id

\* NewAgentCommand::execute for a persona that is loaded
NewAgentCommand(persona) ==
    /\ \E id \in FreshIds :
          /\ \A other \in FreshIds : id <= other
          /\ AddAgent(id, persona)
    /\ UNCHANGED <<parser, tasks, historyFile, archives, conv>>

\* AgentManager::remove_agent
RemoveAgent(id) ==
    /\ tasks' = IF id \in DOMAIN agents THEN Abort(tasks, agents[id].active_task) ELSE tasks
    /\ agents' = [a \in DOMAIN agents \ {id} |-> agents[a]]
    /\ agent_order' = Retain(agent_order, id)
    /\ current_agent' = IF current_agent = id
                        THEN LastOf(Retain(agent_order, id))
                        ELSE current_agent
    /\ UNCHANGED <<parser, historyFile, archives, conv>>

\* AgentOperations::remove_agent called with the id of an open Session
RemoveAgentById(id) ==
    /\ id \in DOMAIN agents
    /\ RemoveAgent(id)

\* CloseAgentCommand::execute
CloseAgentCommand ==
    /\ current_agent # 0
    /\ RemoveAgent(current_agent)

\* switch_agent without the wrap-around
SwitchTarget_Clamp(order, current, next) ==
    IF order = << >> THEN current
    ELSE IF current = 0 THEN order[1]
    ELSE LET n == Len(order)
             pos == PositionOf(order, current)
             idx == IF pos = 0 THEN 0 ELSE pos - 1
             new_idx == IF next
                        THEN (IF idx + 1 < n THEN idx + 1 ELSE idx)
                        ELSE (IF idx > 0 THEN idx - 1 ELSE idx)
         IN order[new_idx + 1]

\* the value AgentManager::switch_agent leaves in current_agent
SwitchTarget(order, current, next) ==
    IF order = << >> THEN current
    ELSE IF current = 0 THEN order[1]
    ELSE LET n == Len(order)
             pos == PositionOf(order, current)
             \* position(..).unwrap_or(0), 0-based
             idx == IF pos = 0 THEN 0 ELSE pos - 1
             new_idx == IF next THEN (idx + 1) % n ELSE (idx + n - 1) % n
         IN order[new_idx + 1]

\* AgentManager::switch_agent
SwitchAgent(next) ==
    /\ current_agent' = SwitchTarget(agent_order, current_agent, next)
    /\ UNCHANGED <<agents, parser, agent_order, tasks, historyFile, archives, conv>>

(***************************************************************************)
(* The spawned tasks.  Each action is what a task runs from one await to   *)
(* the next.                                                               *)
(***************************************************************************)
HttpOutcomes == {"ok", "status_error", "transport_error"}
GrokEvents == {"response.output_text.delta", "response.completed"}
ClaudeEvents == {"message_start", "content_block_delta", "message_stop"}
StreamEnds == {"eof", "transport_error"}
RequestOutcomes == {"ok", "request_failed", "archive_failed"}

LastContent(c) ==
    IF Len(c.local_history) > 0 THEN c.local_history[Len(c.local_history)].content ELSE << >>

\* the request of send_streaming_request / ClaudeClient::send_streaming is answered
TaskHttp(t, outcome) ==
    /\ t \in DOMAIN tasks
    /\ tasks[t].pc = "http"
    /\ LET a == tasks[t].agent
       IN CASE outcome = "ok" ->
                 /\ tasks' = [tasks EXCEPT ![t].pc = "stream", ![t].status = "success"]
                 /\ UNCHANGED agents
            [] outcome = "status_error" ->
                 \* the adapter sends Error and returns Err; the task's closure sends
                 \* Error for the Err
                 /\ agents' = ChanSend(agents, a,
                                 << ErrorChunk(t, <<"API error: status - body">>),
                                    ErrorChunk(t, <<"API error: status">>) >>)
                 /\ tasks' = [tasks EXCEPT ![t].pc = "done", ![t].status = "error"]
            [] OTHER ->
                 /\ agents' = ChanSend(agents, a, << ErrorChunk(t, <<"transport error">>) >>)
                 /\ tasks' = [tasks EXCEPT ![t].pc = "done"]
    /\ UNCHANGED <<parser, current_agent, agent_order, historyFile, archives, conv>>

\* the events a vendor's stream can deliver next: deltas come between the
\* opening and the terminal event of the vendor's protocol
ServerCanSend(task, ev) ==
    IF task.conv.persona.api_provider = "claude"
    THEN \/ ev = "message_start" /\ ~task.started
         \/ ev = "content_block_delta" /\ task.started /\ ~task.terminal
                                       /\ task.deltas < MaxDeltas
         \/ ev = "message_stop" /\ task.started /\ ~task.terminal
    ELSE \/ ev = "response.output_text.delta" /\ ~task.terminal /\ task.deltas < MaxDeltas
         \/ ev = "response.completed" /\ ~task.terminal

\* the event is a text delta for the adapter of the task's persona
IsDeltaEvent(task, ev) ==
    IF task.conv.persona.api_provider = "claude"
    THEN ev = "content_block_delta"
    ELSE ev = "response.output_text.delta"

\* the event carries the response id the adapter keeps
IsIdEvent(task, ev) ==
    IF task.conv.persona.api_provider = "claude"
    THEN ev = "message_start"
    ELSE ev = "response.completed"

\* the event ends the reply in the vendor's protocol
IsTerminalEvent(ev) == ev \in {"response.completed", "message_stop"}

\* one complete "data: ..." line is read from the stream and parsed
TaskStreamEvent(t, ev) ==
    /\ t \in DOMAIN tasks
    /\ tasks[t].pc = "stream"
    /\ ServerCanSend(tasks[t], ev)
    /\ LET task == tasks[t]
           text == FragmentText(t, task.deltas + 1)
       IN /\ tasks' = [tasks EXCEPT
                ![t].full_reply = IF IsDeltaEvent(task, ev) THEN @ \o text ELSE @,
                ![t].deltas = IF IsDeltaEvent(task, ev) THEN @ + 1 ELSE @,
                ![t].response_id = IF IsIdEvent(task, ev) THEN ResponseId(t) ELSE @,
                ![t].started = IF ev = "message_start" THEN TRUE ELSE @,
                ![t].terminal = IF IsTerminalEvent(ev) THEN TRUE ELSE @,
                \* tx.send(..)? returns Err once the receiver was dropped
                ![t].pc = IF IsDeltaEvent(task, ev) /\ task.agent \notin DOMAIN agents
                          THEN "done" ELSE @]
          /\ agents' = IF IsDeltaEvent(task, ev)
                       THEN ChanSend(agents, task.agent, << DeltaChunk(t, text) >>)
                       ELSE agents
    /\ UNCHANGED <<parser, current_agent, agent_order, historyFile, archives, conv>>

\* the stream ends: response_id.ok_or("No response ID received")
TaskStreamEnd(t, how) ==
    /\ t \in DOMAIN tasks
    /\ tasks[t].pc = "stream"
    /\ LET task == tasks[t]
       IN IF how = "eof" /\ task.response_id # NoId
          THEN /\ tasks' = [tasks EXCEPT ![t].pc = "post"]
               /\ UNCHANGED agents
          ELSE /\ tasks' = [tasks EXCEPT ![t].pc = "done"]
               /\ agents' = ChanSend(agents, task.agent,
                               << ErrorChunk(t, IF how = "eof"
                                                THEN <<"No response ID received">>
                                                ELSE <<"transport error">>) >>)
    /\ UNCHANGED <<parser, current_agent, agent_order, historyFile, archives, conv>>

\* mutant: a failed summarization is reported by no chunk
SummarizeErrChunks_Silent(kind, t) == << >>

\* the Err arm of the caller of summarize_history
SummarizeErrChunks(kind, t) ==
    IF kind = "send"
    THEN << ErrorChunk(t, <<"Summarization failed">>) >>
    ELSE << ErrorChunk(t, <<"Summarization error">>) >>

\* the Ok arm of the task of SummarizeCommand
SummarizeOkChunks(t, write_ok) ==
    << InfoChunk(t, <<"Summarization complete.">>) >>
    \o (IF write_ok THEN << >>
        ELSE << ErrorChunk(t, <<"Failed to save persona history">>) >>)

SaveResult(write_ok) == IF write_ok THEN "ok" ELSE "failed"

\* handle_response_streaming from the return of send_streaming to its next
\* await (the historian request) or to its end
TaskPost(t, write_ok, historian_loaded) ==
    /\ t \in DOMAIN tasks
    /\ tasks[t].pc = "post"
    /\ LET task == tasks[t]
           a == task.agent
           c1 == SetLastResponseId(AddAssistantMessage(task.conv, task.full_reply),
                                   task.response_id)
           f1 == WriteHistory(historyFile, c1, write_ok)
           complete == CompleteChunk(t, task.response_id, LastContent(c1))
           info == InfoChunk(t, <<"Summarizing conversation history...">>)
       IN IF a \notin DOMAIN agents
          THEN \* the receiver was dropped: the first tx.send(..)? returns Err
               /\ tasks' = [tasks EXCEPT ![t].pc = "done", ![t].conv = c1,
                                         ![t].save_result =
                                             IF c1.persona.enable_history
                                             THEN SaveResult(write_ok) ELSE @]
               /\ UNCHANGED agents
               /\ historyFile' = IF c1.persona.enable_history THEN f1 ELSE historyFile
          ELSE IF ~c1.persona.enable_history
          THEN /\ tasks' = [tasks EXCEPT ![t].pc = "done", ![t].conv = c1]
               /\ agents' = ChanSend(agents, a, << complete >>)
               /\ UNCHANGED historyFile
          ELSE IF ~ShouldSummarize(c1)
          THEN /\ tasks' = [tasks EXCEPT ![t].pc = "done", ![t].conv = c1,
                                         ![t].save_result = SaveResult(write_ok)]
               /\ agents' = ChanSend(agents, a, << complete >>)
               /\ historyFile' = f1
          ELSE IF ~historian_loaded
          THEN /\ tasks' = [tasks EXCEPT ![t].pc = "done", ![t].conv = c1,
                                         ![t].summarize_result = "no_historian",
                                         ![t].save_result = SaveResult(write_ok)]
               /\ agents' = ChanSend(agents, a,
                               << info >> \o SummarizeErrChunks("send", t) \o << complete >>)
               /\ historyFile' = f1
          ELSE IF ~HasOldSpan(c1)
          THEN /\ tasks' = [tasks EXCEPT ![t].pc = "done", ![t].conv = c1,
                                         ![t].summarize_result = "nothing_old",
                                         ![t].save_result = SaveResult(write_ok)]
               /\ agents' = ChanSend(agents, a, << info, complete >>)
               /\ historyFile' = WriteHistory(f1, c1, write_ok)
          ELSE /\ tasks' = [tasks EXCEPT
                              ![t].pc = IF task.aborted THEN "cancelled" ELSE "historian",
                              ![t].conv = c1,
                              ![t].save_result = SaveResult(write_ok)]
               /\ agents' = ChanSend(agents, a, << info >>)
               /\ historyFile' = f1
    /\ UNCHANGED <<parser, current_agent, agent_order, archives, conv>>

\* the task of SummarizeCommand from its spawn to the historian request
TaskSummarizeStart(t, write_ok, historian_loaded) ==
    /\ t \in DOMAIN tasks
    /\ tasks[t].pc = "start"
    /\ LET task == tasks[t]
           a == task.agent
           starting == InfoChunk(t, <<"Starting summarization...">>)
       IN IF ~historian_loaded
          THEN /\ tasks' = [tasks EXCEPT ![t].pc = "done",
                                         ![t].summarize_result = "no_historian"]
               /\ agents' = ChanSend(agents, a,
                               << starting >> \o SummarizeErrChunks("summarize", t))
               /\ UNCHANGED historyFile
          ELSE IF ~HasOldSpan(task.conv)
          THEN /\ tasks' = [tasks EXCEPT ![t].pc = "done",
                                         ![t].summarize_result = "nothing_old",
                                         ![t].save_result = SaveResult(write_ok)]
               /\ agents' = ChanSend(agents, a,
                               << starting >> \o SummarizeOkChunks(t, write_ok))
               /\ historyFile' = WriteHistory(historyFile, task.conv, write_ok)
          ELSE /\ tasks' = [tasks EXCEPT ![t].pc = "historian"]
               /\ agents' = ChanSend(agents, a, << starting >>)
               /\ UNCHANGED historyFile
    /\ UNCHANGED <<parser, current_agent, agent_order, archives, conv>>

\* summarize_history from the answer of the historian request to its end, and
\* its caller to the end of the task
TaskHistorian(t, outcome, write_ok) ==
    /\ t \in DOMAIN tasks
    /\ tasks[t].pc = "historian"
    /\ LET task == tasks[t]
           a == task.agent
           c1 == task.conv
           c2 == ReplaceHistory(c1, NewHistory(c1, HistorianSummary(c1.persona.name)))
       IN IF outcome = "ok"
          THEN /\ archives' = ArchiveFullHistory(archives, c1)
               /\ historyFile' = WriteHistory(historyFile, c2, write_ok)
               /\ tasks' = [tasks EXCEPT ![t].pc = "done", ![t].conv = c2,
                                         ![t].summarize_result = "ok",
                                         ![t].save_result = SaveResult(write_ok)]
               /\ agents' = ChanSend(agents, a,
                    IF task.kind = "send"
                    THEN << CompleteChunk(t, task.response_id, LastContent(c2)) >>
                    ELSE SummarizeOkChunks(t, write_ok))
          ELSE /\ UNCHANGED <<archives, historyFile>>
               /\ tasks' = [tasks EXCEPT ![t].pc = "done",
                                         ![t].summarize_result = outcome]
               /\ agents' = ChanSend(agents, a,
                    SummarizeErrChunks(task.kind, t)
                    \o (IF task.kind = "send"
                        THEN << CompleteChunk(t, task.response_id, LastContent(c1)) >>
                        ELSE << >>))
    /\ UNCHANGED <<parser, current_agent, agent_order, conv>>

(***************************************************************************)
(* The TUI process: one agent of the default persona at start              *)
(* (initialize_app), commands from the keyboard, poll_channels every tick. *)
(***************************************************************************)
Init ==
    /\ InitFiles
    /\ \E p \in SessionPersonas : agents = (1 :> NewAgentInfo(p, NoFile))
    /\ current_agent = 1
    /\ parser = NoParser
    /\ agent_order = << 1 >>
    /\ tasks = << >>
    /\ conv = NewConversation(Friday)

Next ==
    \/ \E text \in SendTexts : Len(tasks) < MaxTasks /\ SendMessageCommand(text)
    \/ Len(tasks) < MaxTasks /\ SummarizeCommand
    \/ PollChannels
    \/ \E t \in DOMAIN tasks, outcome \in HttpOutcomes : TaskHttp(t, outcome)
    \/ \E t \in DOMAIN tasks, ev \in GrokEvents \cup ClaudeEvents : TaskStreamEvent(t, ev)
    \/ \E t \in DOMAIN tasks, how \in StreamEnds : TaskStreamEnd(t, how)
    \/ \E t \in DOMAIN tasks, write_ok \in BOOLEAN, historian_loaded \in BOOLEAN :
          TaskPost(t, write_ok, historian_loaded)
    \/ \E t \in DOMAIN tasks, write_ok \in BOOLEAN, historian_loaded \in BOOLEAN :
          TaskSummarizeStart(t, write_ok, historian_loaded)
    \/ \E t \in DOMAIN tasks, outcome \in RequestOutcomes, write_ok \in BOOLEAN :
          TaskHistorian(t, outcome, write_ok)

Spec == Init /\ [][Next]_vars

\* every step task t can take
TaskStep(t) ==
    \/ \E outcome \in HttpOutcomes : TaskHttp(t, outcome)
    \/ \E ev \in GrokEvents \cup ClaudeEvents : TaskStreamEvent(t, ev)
    \/ \E how \in StreamEnds : TaskStreamEnd(t, how)
    \/ \E write_ok \in BOOLEAN, historian_loaded \in BOOLEAN :
          TaskPost(t, write_ok, historian_loaded)
    \/ \E write_ok \in BOOLEAN, historian_loaded \in BOOLEAN :
          TaskSummarizeStart(t, write_ok, historian_loaded)
    \/ \E outcome \in RequestOutcomes, write_ok \in BOOLEAN :
          TaskHistorian(t, outcome, write_ok)

\* The event loop calls poll_channels on every iteration, the runtime keeps
\* running every spawned task, and every backend call comes to an end.
SpecLive ==
    /\ Spec
    /\ WF_vars(PollChannels)
    /\ \A t \in 1..MaxTasks : WF_vars(TaskStep(t))

(***************************************************************************)
(* The TUI process used one request at a time: a command is given only     *)
(* when every task has ended and every chunk has been applied.             *)
(***************************************************************************)
SeqPersonas == {Friday, Zero}

Quiet ==
    /\ \A t \in DOMAIN tasks : tasks[t].pc \in {"done", "cancelled"}
    /\ \A a \in DOMAIN agents : agents[a].chan = << >> /\ ~agents[a].is_waiting

InitSeq ==
    /\ InitFiles
    /\ \E p \in SeqPersonas : agents = (1 :> NewAgentInfo(p, NoFile))
    /\ current_agent = 1
    /\ parser = NoParser
    /\ agent_order = << 1 >>
    /\ tasks = << >>
    /\ conv = NewConversation(Friday)

NextSeq ==
    \/ \E text \in SendTexts :
          Quiet /\ Len(tasks) < MaxTurns /\ SendMessageCommand(text)
    \/ Quiet /\ Len(tasks) < MaxTurns /\ SummarizeCommand
    \/ PollChannels
    \/ \E t \in DOMAIN tasks, outcome \in HttpOutcomes : TaskHttp(t, outcome)
    \/ \E t \in DOMAIN tasks, ev \in GrokEvents \cup ClaudeEvents : TaskStreamEvent(t, ev)
    \/ \E t \in DOMAIN tasks, how \in StreamEnds : TaskStreamEnd(t, how)
    \/ \E t \in DOMAIN tasks, write_ok \in BOOLEAN, historian_loaded \in BOOLEAN :
          TaskPost(t, write_ok, historian_loaded)
    \/ \E t \in DOMAIN tasks, write_ok \in BOOLEAN, historian_loaded \in BOOLEAN :
          TaskSummarizeStart(t, write_ok, historian_loaded)
    \/ \E t \in DOMAIN tasks, outcome \in RequestOutcomes, write_ok \in BOOLEAN :
          TaskHistorian(t, outcome, write_ok)

SpecSeq == InitSeq /\ [][NextSeq]_vars

(***************************************************************************)
(* The TUI process with Sessions opened, closed and cycled.                *)
(***************************************************************************)
AgentPersonas == {Friday}

InitAgents ==
    /\ InitFiles
    /\ \E p \in AgentPersonas : agents = (1 :> NewAgentInfo(p, NoFile))
    /\ current_agent = 1
    /\ parser = NoParser
    /\ agent_order = << 1 >>
    /\ tasks = << >>
    /\ conv = NewConversation(Friday)

NextAgents ==
    \/ \E p \in AgentPersonas : NewAgentCommand(p)
    \/ CloseAgentCommand
    \/ \E id \in 1..MaxAgents : RemoveAgentById(id)
    \/ \E next \in BOOLEAN : SwitchAgent(next)
    \/ \E text \in SendTexts : Len(tasks) < MaxAgentTasks /\ SendMessageCommand(text)
    \/ Len(tasks) < MaxAgentTasks /\ SummarizeCommand
    \/ PollChannels
    \/ \E t \in DOMAIN tasks, outcome \in HttpOutcomes : TaskHttp(t, outcome)
    \/ \E t \in DOMAIN tasks, ev \in GrokEvents \cup ClaudeEvents : TaskStreamEvent(t, ev)
    \/ \E t \in DOMAIN tasks, how \in StreamEnds : TaskStreamEnd(t, how)
    \/ \E t \in DOMAIN tasks, write_ok \in BOOLEAN, historian_loaded \in BOOLEAN :
          TaskPost(t, write_ok, historian_loaded)
    \/ \E t \in DOMAIN tasks, write_ok \in BOOLEAN, historian_loaded \in BOOLEAN :
          TaskSummarizeStart(t, write_ok, historian_loaded)
    \/ \E t \in DOMAIN tasks, outcome \in RequestOutcomes, write_ok \in BOOLEAN :
          TaskHistorian(t, outcome, write_ok)

SpecAgents == InitAgents /\ [][NextAgents]_vars

(***************************************************************************)
(* The TUI process with two Sessions created from the same persona.        *)
(***************************************************************************)
InitPair ==
    /\ InitFiles
    /\ agents = [a \in {1, 2} |-> NewAgentInfo(Friday, NoFile)]
    /\ current_agent = 2
    /\ parser = NoParser
    /\ agent_order = << 1, 2 >>
    /\ tasks = << >>
    /\ conv = NewConversation(Friday)

NextPair ==
    \/ \E next \in BOOLEAN : SwitchAgent(next)
    \/ \E text \in SendTexts : Len(tasks) < MaxTasks /\ SendMessageCommand(text)
    \/ Len(tasks) < MaxTasks /\ SummarizeCommand
    \/ PollChannels
    \/ \E t \in DOMAIN tasks, outcome \in HttpOutcomes : TaskHttp(t, outcome)
    \/ \E t \in DOMAIN tasks, ev \in GrokEvents \cup ClaudeEvents : TaskStreamEvent(t, ev)
    \/ \E t \in DOMAIN tasks, how \in StreamEnds : TaskStreamEnd(t, how)
    \/ \E t \in DOMAIN tasks, write_ok \in BOOLEAN, historian_loaded \in BOOLEAN :
          TaskPost(t, write_ok, historian_loaded)
    \/ \E t \in DOMAIN tasks, write_ok \in BOOLEAN, historian_loaded \in BOOLEAN :
          TaskSummarizeStart(t, write_ok, historian_loaded)
    \/ \E t \in DOMAIN tasks, outcome \in RequestOutcomes, write_ok \in BOOLEAN :
          TaskHistorian(t, outcome, write_ok)

SpecPair == InitPair /\ [][NextPair]_vars

(***************************************************************************)
(* Sessions created and closed over the history files found on disk.       *)
(***************************************************************************)
CreatePersonas == {Friday, Plain}

\* the records an earlier run can have saved for the persona
StartRecords(persona) ==
    LET c0 == NewConversation(persona)
        c1 == AddAssistantMessage(AddUserMessage(c0, <<"hi">>), <<"yo">>)
        c2 == ReplaceHistory(c1, NewHistory(c1, HistorianSummary(persona.name)))
    IN {SavedRecord(c0), SavedRecord(c1), SavedRecord(c2)}

InitCreate ==
    /\ \E f \in {NoFile, CorruptFile} \cup StartRecords(Friday) :
       \E g \in {NoFile, CorruptFile} \cup StartRecords(Plain) :
          historyFile = [n \in PersonaNames |->
                            IF n = Friday.name THEN f
                            ELSE IF n = Plain.name THEN g ELSE NoFile]
    /\ archives = [n \in PersonaNames |-> NoArchive]
    /\ agents = << >>
    /\ current_agent = 0
    /\ parser = NoParser
    /\ agent_order = << >>
    /\ tasks = << >>
    /\ conv = NewConversation(Friday)

NextCreate ==
    \/ \E p \in CreatePersonas : NewAgentCommand(p)
    \/ CloseAgentCommand
    \/ \E id \in 1..MaxAgents : RemoveAgentById(id)
    \/ \E next \in BOOLEAN : SwitchAgent(next)

SpecCreate == InitCreate /\ [][NextCreate]_vars

(***************************************************************************)
(* The TUI process with two Sessions of a persona that keeps no history:   *)
(* requests, streams and polls, no compaction and no history file.         *)
(***************************************************************************)
InitDuo ==
    /\ InitFiles
    /\ agents = [a \in {1, 2} |-> NewAgentInfo(Plain, NoFile)]
    /\ current_agent = 2
    /\ parser = NoParser
    /\ agent_order = << 1, 2 >>
    /\ tasks = << >>
    /\ conv = NewConversation(Plain)

NextDuo ==
    \/ \E next \in BOOLEAN : SwitchAgent(next)
    \/ \E text \in SendTexts : Len(tasks) < MaxTasks /\ SendMessageCommand(text)
    \/ PollChannels
    \/ \E t \in DOMAIN tasks, outcome \in HttpOutcomes : TaskHttp(t, outcome)
    \/ \E t \in DOMAIN tasks, ev \in GrokEvents \cup ClaudeEvents : TaskStreamEvent(t, ev)
    \/ \E t \in DOMAIN tasks, how \in StreamEnds : TaskStreamEnd(t, how)
    \/ \E t \in DOMAIN tasks, write_ok \in BOOLEAN, historian_loaded \in BOOLEAN :
          TaskPost(t, write_ok, historian_loaded)

SpecDuo == InitDuo /\ [][NextDuo]_vars

(***************************************************************************)
(* Sessions opened and closed and ClearHistoryCommand, over a file system  *)
(* that holds, next to the records save_persona_history writes, files at   *)
(* the path ClearHistoryCommand removes.  The program writes no file at    *)
(* that path: one is there only when something else put it there.          *)
(***************************************************************************)
\* format!("history/{}_history.json", persona_name)
ClearPath(name) == "history/" \o name

\* ClearHistoryCommand::execute; the text it displays goes to the transcript
\* of the application, which no Session holds
ClearHistoryCommand ==
    /\ current_agent # 0
    /\ LET path == ClearPath(agents[current_agent].connection.persona.name)
       IN historyFile' = IF historyFile[path].exists
                         THEN [historyFile EXCEPT ![path] = NoFile]
                         ELSE historyFile
    /\ UNCHANGED <<agents, parser, current_agent, agent_order, tasks, archives, conv>>

InitClear ==
    /\ \E f \in {NoFile} \cup StartRecords(Friday) :
       \E g \in {NoFile} \cup StartRecords(Friday) :
          historyFile = [n \in PersonaNames \cup {ClearPath(m) : m \in PersonaNames} |->
                            IF n = Friday.name THEN f
                            ELSE IF n = ClearPath(Friday.name) THEN g ELSE NoFile]
    /\ archives = [n \in PersonaNames |-> NoArchive]
    /\ agents = << >>
    /\ current_agent = 0
    /\ parser = NoParser
    /\ agent_order = << >>
    /\ tasks = << >>
    /\ conv = NewConversation(Friday)

NextClear ==
    \/ \E p \in CreatePersonas : NewAgentCommand(p)
    \/ CloseAgentCommand
    \/ ClearHistoryCommand
    \/ \E next \in BOOLEAN : SwitchAgent(next)

SpecClear == InitClear /\ [][NextClear]_vars

(***************************************************************************)
(* The scenario of the defaults: one Session of a persona with             *)
(* history_message_limit 12 and summary_threshold 20, turns sent one after *)
(* the other, every request answered by a complete stream of one fragment, *)
(* every file written, a historian that succeeds.                          *)
(***************************************************************************)
InitScenario ==
    /\ InitFiles
    /\ agents = (1 :> NewAgentInfo(Shadow, NoFile))
    /\ current_agent = 1
    /\ parser = NoParser
    /\ agent_order = << 1 >>
    /\ tasks = << >>
    /\ conv = NewConversation(Friday)

\* the stream of the scenario: one fragment, then the terminal event
ScenarioStream(task, ev) ==
    /\ IsDeltaEvent(task, ev) => task.deltas = 0
    /\ IsTerminalEvent(ev) => task.deltas = 1

NextScenario ==
    \/ \E text \in SendTexts :
          Quiet /\ Len(tasks) < ScenTurns /\ SendMessageCommand(text)
    \/ PollChannels
    \/ \E t \in DOMAIN tasks : TaskHttp(t, "ok")
    \/ \E t \in DOMAIN tasks, ev \in GrokEvents :
          ScenarioStream(tasks[t], ev) /\ TaskStreamEvent(t, ev)
    \/ \E t \in DOMAIN tasks : tasks[t].terminal /\ TaskStreamEnd(t, "eof")
    \/ \E t \in DOMAIN tasks : TaskPost(t, TRUE, TRUE)
    \/ \E t \in DOMAIN tasks : TaskHistorian(t, "ok", TRUE)

SpecScenario == InitScenario /\ [][NextScenario]_vars

(***************************************************************************)
(* Properties.                                                             *)
(***************************************************************************)
Range(s) == {s[i] : i \in DOMAIN s}

\* every GrokConversation that exists in the state: the one driven directly,
\* the connection of every Session, the clone every task works on
Conversations ==
    {conv}
    \cup {agents[a].connection : a \in DOMAIN agents}
    \cup {tasks[t].conv : t \in DOMAIN tasks}

\* the chunks the step has put on the channel of agent a
Appended(a) ==
    SubSeq(agents'[a].chan, Len(agents[a].chan) + 1, Len(agents'[a].chan))

IsPrefix(h1, h2) == Len(h1) <= Len(h2) /\ SubSeq(h2, 1, Len(h1)) = h1

\* the tasks of agent a that can still put a chunk on its channel
InFlight(a) ==
    {t \in DOMAIN tasks : tasks[t].agent = a /\ tasks[t].pc \notin {"done", "cancelled"}}

\* the number of messages whose role is not system
NonSystemCount(h) == Cardinality({i \in 1..Len(h) : h[i].role # "system"})

\* the results of summarize_history that are an Err
SummarizeErrors == {"no_historian", "request_failed", "archive_failed"}

SummaryIndexes(h) == {i \in 1..Len(h) : IsSummaryMessage(h[i])}

\* C1: a request on which a new send called abort while the Session was still
\* waiting on it is never committed to the Session's log, so that only the
\* reply of the new request is committed and the log never receives two
\* commits.
C1_OneCommit ==
    \A a \in DOMAIN agents :
        \A i \in DOMAIN agents[a].commits :
            ~tasks[agents[a].commits[i]].aborted

\* C2: at every moment each Session has at most one spawned task that can
\* still put chunks on its channel.
C2_OneInFlight ==
    \A a \in DOMAIN agents : Cardinality(InFlight(a)) <= 1

\* C3: with history_message_limit 12, summary_threshold 20 and a historian
\* that succeeds, once 21 turns sent one after the other have completed the
\* Session's log is [system prompt, summary marker, the last 12 messages] and
\* an archive snapshot has been written.
C3_Scenario ==
    \A a \in DOMAIN agents :
        LET log == agents[a].connection.local_history
            persona == agents[a].connection.persona
        IN ( /\ persona.history_message_limit = DefaultMessageLimit
             /\ persona.summary_threshold = DefaultSummaryThreshold
             /\ Len(agents[a].commits) = 21
             /\ Quiet )
           => /\ Len(log) = 2 + DefaultMessageLimit
              /\ log[1] = Msg("system", persona.system_prompt)
              /\ IsSummaryMessage(log[2])
              /\ \A i \in 3..Len(log) : log[i].role # "system"
              /\ log[Len(log)].role = "assistant"
              /\ archives[persona.name].count >= 1

\* the chunk reports the failure of a send: an Error of a send task whose round
\* trip added no assistant message
IsSendFailure(chunk) ==
    /\ chunk.type = "Error"
    /\ tasks[chunk.task].kind = "send"
    /\ LastRole(tasks[chunk.task].conv.local_history) = "user"

\* C4: when poll_channels has applied the Error of a failed send, the last
\* entry of the Session's log is the user's message of that request, and no
\* assistant message was committed for the request.
C4_UserMessageKept ==
    [][ \A a \in DOMAIN agents :
          LET ch == agents[a].chan
          IN ( /\ ch # << >>
               /\ agents'[a].chan = << >>
               /\ IsSendFailure(ch[Len(ch)]) )
             => LET t == ch[Len(ch)].task
                    request == tasks[t].conv.local_history
                    log == agents'[a].connection.local_history
                IN /\ log[Len(log)] = request[Len(request)]
                   /\ t \notin Range(agents'[a].commits) ]_vars

\* C5: for both adapters, when the stream of a request has delivered one or
\* more text fragments and ends without the terminal event, the task ends with
\* an Error chunk on the Session's channel, and every reply that is committed
\* comes from a stream that delivered its terminal event.
C5_PartialDiscarded ==
    [][ /\ \A t \in DOMAIN tasks :
              ( /\ tasks[t].pc = "stream"
                /\ tasks'[t].pc \notin {"stream", "cancelled"}
                /\ tasks[t].deltas >= 1
                /\ ~tasks[t].terminal )
              => /\ tasks'[t].pc = "done"
                 /\ \E i \in DOMAIN Appended(tasks[t].agent) :
                       /\ Appended(tasks[t].agent)[i].type = "Error"
                       /\ Appended(tasks[t].agent)[i].task = t
        /\ \A a \in DOMAIN agents :
              \A i \in DOMAIN agents'[a].commits :
                  tasks'[agents'[a].commits[i]].terminal ]_vars

\* C6: in every reachable state the message log of every Conversation State is
\* non-empty and its first element has role system.
C6_SystemFirst ==
    \A c \in Conversations :
        /\ Len(c.local_history) >= 1
        /\ c.local_history[1].role = "system"

\* C6 witness: a conversation created from a loaded record that holds a summary
\* written by a compaction, and to which a user message has been added since.
C6_Witness ==
    /\ Len(conv.local_history) >= 4
    /\ IsSummaryMessage(conv.local_history[2])
    /\ conv.last_response_id = NoId
    /\ LastRole(conv.local_history) = "user"

\* C7: with summary_threshold 20 and history enabled, should_summarize is
\* false for a log of exactly 20 non-system messages and true for a log of 21.
C7_Boundary ==
    \A c \in Conversations :
        ( /\ c.persona.enable_history
          /\ c.persona.summary_threshold = DefaultSummaryThreshold )
        => /\ NonSystemCount(c.local_history) = DefaultSummaryThreshold
                 => ~ShouldSummarize(c)
           /\ NonSystemCount(c.local_history) = DefaultSummaryThreshold + 1
                 => ShouldSummarize(c)

\* C8: in the step in which summarize_history returns an error (no historian
\* persona, failed historian request, failed archive write) the task's log is
\* the log compaction started with, the Session's own log and the archives are
\* unchanged, an Error chunk of the task is put on the Session's channel, and
\* the task ends without another historian request.
C8_FailureLeavesLog ==
    [][ \A t \in DOMAIN tasks :
          ( /\ tasks[t].summarize_result = "none"
            /\ tasks'[t].summarize_result \in SummarizeErrors )
          => LET a == tasks[t].agent
                 log == tasks[t].conv.local_history
                 before == IF tasks[t].pc = "post"
                           THEN Append(log, Msg("assistant", tasks[t].full_reply))
                           ELSE log
             IN /\ tasks'[t].conv.local_history = before
                /\ agents'[a].connection = agents[a].connection
                /\ archives' = archives
                /\ \E i \in DOMAIN Appended(a) :
                      /\ Appended(a)[i].type = "Error"
                      /\ Appended(a)[i].task = t
                /\ tasks'[t].pc = "done" ]_vars

\* C8 witness: the historian request of a send task has failed after the task
\* added the reply to its log; the task has ended and its Error chunk and its
\* Complete chunk wait on the Session's channel.
C8_Witness ==
    \E t \in DOMAIN tasks :
        /\ tasks[t].kind = "send"
        /\ tasks[t].summarize_result = "request_failed"
        /\ tasks[t].pc = "done"
        /\ LastRole(tasks[t].conv.local_history) = "assistant"
        /\ \E i \in DOMAIN agents[tasks[t].agent].chan :
              /\ agents[tasks[t].agent].chan[i].type = "Error"
              /\ agents[tasks[t].agent].chan[i].task = t

\* C9: a step of a task replaces the task's log (the old log is not a prefix of
\* the new one) only if the same step has written one more archive snapshot
\* holding the whole old log; when the archive write fails the log and the
\* archives are unchanged.
C9_ArchiveBeforeReplace ==
    [][ \A t \in DOMAIN tasks :
          LET old == tasks[t].conv.local_history
              name == tasks[t].conv.persona.name
          IN /\ ~IsPrefix(old, tasks'[t].conv.local_history)
                   => /\ archives'[name].count = archives[name].count + 1
                      /\ archives'[name].newest = old
             /\ ( /\ tasks[t].summarize_result = "none"
                  /\ tasks'[t].summarize_result = "archive_failed" )
                   => /\ tasks'[t].conv.local_history = old
                      /\ archives' = archives ]_vars

\* C9 witness: a compaction has succeeded: the task's log is [system prompt,
\* summary marker, kept messages] and the newest snapshot holds a longer log
\* without a summary marker.
C9_Witness ==
    \E t \in DOMAIN tasks :
        LET log == tasks[t].conv.local_history
            snapshot == archives[tasks[t].conv.persona.name]
        IN /\ tasks[t].summarize_result = "ok"
           /\ IsSummaryMessage(log[2])
           /\ snapshot.count >= 1
           /\ Len(snapshot.newest) > Len(log)
           /\ SummaryIndexes(snapshot.newest) = {}

\* C10: for every reachable conversation of a persona that loads its history,
\* saving it and creating a fresh Session from the saved record gives the log
\* [system prompt, the summary-marker message of the saved log if it has one,
\* the saved recent-message suffix], and nothing is duplicated: the marker
\* message lies before the suffix.
C10_RoundTrip ==
    \A c \in Conversations :
        c.persona.enable_history =>
            LET h == c.local_history
                first == RecentStart(c) + 1
                marker == SummaryIndexes(h)
                reloaded == NewWithoutOutput(c.persona, SavedRecord(c)).local_history
            IN /\ reloaded = << Msg("system", c.persona.system_prompt) >>
                             \o (IF marker = {} THEN << >>
                                 ELSE << h[CHOOSE i \in marker : \A j \in marker : i <= j] >>)
                             \o SubSeq(h, first, Len(h))
               /\ \A i \in marker : i < first

\* C10 witness: a fresh Session has been created from a saved record that holds
\* a summary and at least one recent message.
C10_Witness ==
    LET file == historyFile[conv.persona.name]
    IN /\ conv.persona.enable_history
       /\ file.exists
       /\ file.summary.some
       /\ Len(file.recent_messages) >= 1
       /\ conv.last_response_id = NoId
       /\ conv.local_history = BuildHistoryFromLoaded(conv.persona, file)

\* C11: once the whole byte stream has been read, in whatever chunks, the
\* Delta events sent, the full reply and the response id are those the same
\* adapter produces when it is fed the stream one complete line at a time.
C11_SplitIndependent ==
    parser.wire = << >>
        => ParserResult(parser)
           = ParserResult(FeedAll(ParserStart(parser.provider, parser.stream),
                                  SplitLines(parser.stream)))

\* the chunk was sent by a task on which abort has not been called
FromLiveTask(chunk) == ~tasks[chunk.task].aborted

\* C12: whenever the log or the continuation token of a Session changes, the
\* change is the one made by the pending chunks of the tasks that were not
\* cancelled: the chunks of a cancelled request alter neither.
C12_CancelLeavesState ==
    [][\A a \in DOMAIN agents \cap DOMAIN agents' :
          agents'[a].connection # agents[a].connection
              => agents'[a].connection
                 = ApplyChunks(agents[a], SelectSeq(agents[a].chan, FromLiveTask)).connection]_vars

\* C13: the request a send builds carries, when the Session has no
\* continuation token, the whole log with the new user message at its end and
\* no previous_response_id; when a token is stored, only the new user message
\* and the token as previous_response_id.
C13_RequestShape ==
    [][Len(tasks') = Len(tasks) + 1 /\ tasks'[Len(tasks')].kind = "send"
          => LET t == tasks'[Len(tasks')]
                 c == agents[t.agent].connection
             IN \E content \in SendTexts :
                   /\ t.request.previous_response_id = c.last_response_id
                   /\ t.request.input
                      = IF c.last_response_id = NoId
                        THEN Append(c.local_history, Msg("user", content))
                        ELSE << Msg("user", content) >>]_vars

\* a request built with a token on a log of several messages, and one built
\* without a token
C13_Witness ==
    \E t \in DOMAIN tasks : \E u \in DOMAIN tasks :
        /\ tasks[t].kind = "send" /\ tasks[u].kind = "send"
        /\ tasks[t].request.previous_response_id # NoId
        /\ Len(tasks[t].request.input) = 1
        /\ Len(tasks[t].conv.local_history) > 2
        /\ tasks[u].request.previous_response_id = NoId
        /\ Len(tasks[u].request.input) > 1

\* the nearest surviving Session before id in the order list; when id is the
\* first of the list no Session precedes it and any survivor is accepted
IsPreviousSurvivor(order, id, chosen) ==
    LET pos == PositionOf(order, id)
    IN IF Len(order) = 1 THEN chosen = 0
       ELSE IF pos > 1 THEN chosen = order[pos - 1]
       ELSE \E i \in 2..Len(order) : chosen = order[i]

\* C14: a step that removes Session id calls abort on the task the Session
\* holds, leaves id neither in the map nor in the order list, makes the
\* nearest surviving Session before id (none when no Session remains) the
\* active one when id was active, and leaves the active selection alone when
\* id was not active.
C14_RemoveAgent ==
    [][\A id \in DOMAIN agents :
          id \notin DOMAIN agents'
              => /\ agents[id].active_task # 0 => tasks'[agents[id].active_task].aborted
                 /\ \A i \in 1..Len(agent_order') : agent_order'[i] # id
                 /\ IF current_agent = id
                    THEN IsPreviousSurvivor(agent_order, id, current_agent')
                    ELSE current_agent' = current_agent]_vars

\* C15: a task spawned for a Session that has been removed takes no further
\* step, so it sends no chunk and writes neither the history file nor an
\* archive of that persona.
C15_NoTaskAfterRemove ==
    [][\A t \in DOMAIN tasks :
          tasks[t].agent \notin DOMAIN agents => tasks'[t] = tasks[t]]_vars

\* the task has returned from send_streaming and runs, with no await left
\* before it, the save_persona_history of handle_response_streaming
AboutToSave(t) ==
    /\ tasks[t].pc = "post"
    /\ tasks[t].conv.persona.enable_history

\* C16: no two tasks of different Sessions are at the same time about to
\* write the history file of the same persona: writes to one path are never
\* concurrent.
C16_WritesSerialized ==
    \A t \in DOMAIN tasks : \A u \in DOMAIN tasks :
        /\ tasks[t].agent # tasks[u].agent
        /\ AboutToSave(t)
        /\ AboutToSave(u)
        => tasks[t].conv.persona.name # tasks[u].conv.persona.name

\* the last two messages of the log are a user message and the reply
EndsWithTurn(h, reply) ==
    /\ Len(h) >= 3
    /\ h[Len(h) - 1].role = "user"
    /\ h[Len(h)] = Msg("assistant", reply)

PendingOf(t) ==
    IF tasks[t].agent \in DOMAIN agents
    THEN SelectSeq(agents[tasks[t].agent].chan, LAMBDA chunk : chunk.task = t)
    ELSE << >>

\* the request of task t was answered with a status that is not 2xx
StatusError(t) == tasks[t].status = "error"

\* C18: a request answered with a non-2xx status sends an Error chunk in the
\* step that receives the status, reads no stream (no delta, no response id,
\* an empty reply), never sends a Delta or Complete chunk, leaves the log of
\* its connection as it was, and is never committed; the poll step that
\* applies its Error chunks leaves the Session's log and token unchanged.
C18_StatusShortCircuit ==
    [][\A t \in DOMAIN tasks :
          LET a == tasks[t].agent
          IN /\ tasks[t].status = "none" /\ tasks'[t].status = "error" /\ a \in DOMAIN agents
                => \E i \in 1..Len(Appended(a)) :
                      Appended(a)[i].type = "Error" /\ Appended(a)[i].task = t
             /\ tasks'[t].status = "error"
                => /\ tasks'[t].pc = "done"
                   /\ tasks'[t].deltas = 0
                   /\ tasks'[t].full_reply = << >>
                   /\ tasks'[t].response_id = NoId
                   /\ tasks'[t].conv = tasks[t].conv
                   /\ a \in DOMAIN agents'
                      => /\ \A i \in 1..Len(agents'[a].chan) :
                              agents'[a].chan[i].task = t
                                  => agents'[a].chan[i].type = "Error"
                         /\ \A i \in 1..Len(agents'[a].commits) : agents'[a].commits[i] # t
             /\ /\ StatusError(t)
                /\ a \in DOMAIN agents \cap DOMAIN agents'
                /\ PendingOf(t) # << >>
                /\ PendingOf(t) = agents[a].chan
                /\ agents'[a].chan = << >>
                => agents'[a].connection = agents[a].connection]_vars

\* the Error chunks of a request answered with a non-2xx status have been
\* applied
C18_Witness ==
    \E t \in DOMAIN tasks :
        /\ StatusError(t)
        /\ tasks[t].agent \in DOMAIN agents
        /\ agents[tasks[t].agent].chan = << >>
        /\ ~agents[tasks[t].agent].is_waiting
        /\ Len(agents[tasks[t].agent].messages) >= 3

\* C19: a step that creates a Session of a persona whose history file is
\* missing or is not a readable record leaves the new Session in the map, as
\* the active one, with a log that is exactly the system prompt and without
\* last_response_id.
C19_NoHistoryIsFresh ==
    [][\A id \in DOMAIN agents' :
          id \notin DOMAIN agents
              => LET c == agents'[id].connection
                     file == historyFile[c.persona.name]
                 IN ~file.exists \/ ~file.valid
                    => /\ c.local_history = << Msg("system", c.persona.system_prompt) >>
                       /\ c.last_response_id = NoId
                       /\ current_agent' = id
                       /\ agent_order'[Len(agent_order')] = id]_vars

\* Sessions of a persona with enable_history exist over an unreadable file and
\* the file holds content
C19_Witness ==
    /\ historyFile[Friday.name] = CorruptFile
    /\ \E a \in DOMAIN agents :
          /\ agents[a].persona_name = Friday.name
          /\ Len(agents[a].connection.local_history) = 1

\* C20: a send task whose save_persona_history failed still sends its Complete
\* chunk when it ends, with the response id of its reply, and the poll step
\* that applies the chunk appends its text to the Session's log as an
\* assistant message, stores the response id and ends the waiting.
C20_WriteFailureNoBlock ==
    [][\A t \in DOMAIN tasks :
          LET a == tasks[t].agent
          IN /\ /\ tasks[t].kind = "send"
                /\ tasks[t].pc \in {"post", "historian"}
                /\ tasks'[t].pc = "done"
                /\ tasks'[t].save_result = "failed"
                /\ a \in DOMAIN agents
                => \E i \in 1..Len(Appended(a)) :
                      /\ Appended(a)[i].type = "Complete"
                      /\ Appended(a)[i].task = t
                      /\ Appended(a)[i].response_id = tasks'[t].response_id
                      /\ Appended(a)[i].text = LastContent(tasks'[t].conv)
             /\ /\ tasks[t].save_result = "failed"
                /\ a \in DOMAIN agents \cap DOMAIN agents'
                /\ agents'[a].chan = << >>
                /\ \E i \in 1..Len(agents[a].chan) :
                      agents[a].chan[i].type = "Complete" /\ agents[a].chan[i].task = t
                => LET h == agents'[a].connection.local_history
                   IN /\ Len(h) = Len(agents[a].connection.local_history) + 1
                      /\ h[Len(h)] = Msg("assistant", LastContent(tasks[t].conv))
                      /\ agents'[a].connection.last_response_id = tasks[t].response_id
                      /\ ~agents'[a].is_waiting]_vars

\* the reply of a task whose save failed has been committed
C20_Witness ==
    \E a \in DOMAIN agents : \E i \in 1..Len(agents[a].commits) :
        LET t == agents[a].commits[i]
        IN /\ tasks[t].save_result = "failed"
           /\ ~historyFile[agents[a].persona_name].exists
           /\ agents[a].connection.last_response_id = tasks[t].response_id
           /\ Len(agents[a].connection.local_history) = 2

\* the number of messages of the system/summary prefix: the system prompt and
\* the summary messages that follow it
RECURSIVE PrefixLen(_)
PrefixLen(h) ==
    IF Len(h) >= 2 /\ IsSummaryMessage(h[2])
    THEN 1 + PrefixLen(<< h[1] >> \o SubSeq(h, 3, Len(h)))
    ELSE IF h = << >> THEN 0 ELSE 1

\* the messages strictly between the prefix and the cutoff that keeps the
\* last history_message_limit messages
OldSpan(c) ==
    SubSeq(c.local_history, PrefixLen(c.local_history) + 1,
           Len(c.local_history) - c.persona.history_message_limit)

\* C21: on a conversation whose old span is empty summarize_history with a
\* historian that answers leaves the log as it is and writes no archive.
C21_EmptySpanNoOp ==
    OldSpan(conv) = << >>
        => /\ SummarizedConversation(conv, "ok", HistorianSummary(conv.persona.name)) = conv
           /\ SummarizedArchives(archives, conv, "ok") = archives

\* k applications of switch_agent(next) to the active Session
RECURSIVE Cycled(_, _, _, _)
Cycled(order, current, next, k) ==
    IF k = 0 THEN current
    ELSE Cycled(order, SwitchTarget(order, current, next), next, k - 1)

\* C22: switch_agent on an empty registry changes nothing; with n Sessions and
\* the active one at index i (0-based) next selects order[(i+1) mod n] and
\* previous order[(i+n-1) mod n], next followed by previous restores the
\* active Session, n nexts return to it, and a step that changes the active
\* Session without opening or closing one leaves map and order list alone.
C22_Cycling ==
    [][/\ agent_order = << >>
            => \A next \in BOOLEAN :
                  SwitchTarget(agent_order, current_agent, next) = current_agent
       /\ agent_order # << >>
            => LET n == Len(agent_order)
                   i == PositionOf(agent_order, current_agent) - 1
               IN /\ i \in 0..(n - 1)
                  /\ SwitchTarget(agent_order, current_agent, TRUE)
                        = agent_order[((i + 1) % n) + 1]
                  /\ SwitchTarget(agent_order, current_agent, FALSE)
                        = agent_order[((i + n - 1) % n) + 1]
                  /\ Cycled(agent_order, Cycled(agent_order, current_agent, TRUE, 1), FALSE, 1)
                        = current_agent
                  /\ Cycled(agent_order, current_agent, TRUE, n) = current_agent
       /\ (current_agent' # current_agent /\ Len(agent_order') = Len(agent_order))
            => /\ agents' = agents
               /\ agent_order' = agent_order
               /\ \E next \in BOOLEAN :
                     current_agent' = SwitchTarget(agent_order, current_agent, next)
      ]_vars

\* three Sessions are open and cycling forward from the last one has wrapped
\* around to the first
C22_Witness ==
    /\ Len(agent_order) = MaxAgents
    /\ current_agent = agent_order[1]

\* the Session after the first k events of a channel were applied, oldest first
RECURSIVE AppliedUpTo(_, _, _)
AppliedUpTo(agent, chunks, k) ==
    IF k = 0 THEN agent
    ELSE ApplyChunk(AppliedUpTo(agent, chunks, k - 1), chunks[k])

\* C23: a step that takes an event off some Session's channel is one call of
\* poll_channels: it leaves every channel empty and every Session, active or
\* not, in the state reached by applying its pending events oldest first.
C23_PollDrainsAll ==
    [][(\E a \in DOMAIN agents \cap DOMAIN agents' :
            Len(agents'[a].chan) < Len(agents[a].chan))
        => /\ DOMAIN agents' = DOMAIN agents
           /\ \A a \in DOMAIN agents :
                 agents'[a] = [AppliedUpTo(agents[a], agents[a].chan, Len(agents[a].chan))
                                  EXCEPT !.chan = << >>]
      ]_vars

\* the channels of two Sessions have been drained: each has a committed
\* reply, one of them is not the active Session, and its transcript holds a
\* streamed fragment
C23_Witness ==
    /\ \A a \in DOMAIN agents : agents[a].commits # << >> /\ agents[a].chan = << >>
    /\ \E a \in DOMAIN agents :
          /\ a # current_agent
          /\ LastContent(agents[a].connection) # << >>
          /\ \E i \in 1..Len(agents[a].messages) :
                agents[a].messages[i] = LastContent(agents[a].connection)

SessionState(agent) ==
    << agent.connection.local_history, agent.connection.last_response_id,
       agent.messages, agent.is_waiting, agent.active_task >>

\* C25: every event on a Session's channel was sent by a task of that Session;
\* a step of a task leaves every other Session as it was, channel included;
\* and a Session's log, token, transcript, waiting flag and task handle change
\* only by a command on that Session or by applying the events of its own
\* channel.
C25_SessionIsolation ==
    [][/\ \A b \in DOMAIN agents :
             \A i \in 1..Len(agents[b].chan) :
                 tasks[agents[b].chan[i].task].agent = b
       /\ \A t \in DOMAIN tasks :
             (Len(tasks') = Len(tasks) /\ tasks'[t] # tasks[t])
                 => \A b \in DOMAIN agents \ {tasks[t].agent} :
                       b \in DOMAIN agents' /\ agents'[b] = agents[b]
       /\ \A b \in DOMAIN agents \cap DOMAIN agents' :
             SessionState(agents'[b]) # SessionState(agents[b])
                 => \/ /\ Len(tasks') = Len(tasks) + 1
                       /\ tasks'[Len(tasks')].agent = b
                       /\ current_agent = b
                    \/ /\ agents[b].chan # << >>
                       /\ SessionState(agents'[b])
                            = SessionState(AppliedUpTo(agents[b], agents[b].chan,
                                                       Len(agents[b].chan)))
      ]_vars

\* one Session's request was answered and its channel drained while the
\* other Session is still waiting for its own request, its log untouched
C25_Witness ==
    \E a \in DOMAIN agents : \E b \in DOMAIN agents \ {a} :
        /\ agents[a].commits # << >>
        /\ agents[a].chan = << >>
        /\ ~agents[a].is_waiting
        /\ agents[b].is_waiting
        /\ agents[b].active_task # 0
        /\ agents[b].commits = << >>
        /\ Len(agents[b].connection.local_history) = 1

\* C26: when sends follow one another and poll_channels applies the Complete
\* of a request whose task replaced no history, the Session's log is two entries
\* longer than before the send, the user message then the assistant reply,
\* and is the log the task built.
C26_LogGrowsByTurn ==
    [][\A a \in DOMAIN agents \cap DOMAIN agents' :
          \A t \in DOMAIN tasks :
              ( /\ agents'[a].commits = Append(agents[a].commits, t)
                /\ tasks[t].kind = "send"
                /\ tasks[t].summarize_result # "ok" )
              => LET before == agents[a].connection.local_history
                     after == agents'[a].connection.local_history
                 IN /\ Len(after) = Len(before) + 2
                    /\ SubSeq(after, 1, Len(before)) = before
                    /\ after[Len(after) - 1].role = "user"
                    /\ after[Len(after)].role = "assistant"
                    /\ after = tasks[t].conv.local_history]_vars

Max(x, y) == IF x >= y THEN x ELSE y

\* C27: with history enabled and a historian that always succeeds, the log of
\* a Session never holds more than max(summary_threshold,
\* history_message_limit) + 3 entries.
C27_LogBounded ==
    \A a \in DOMAIN agents :
        LET c == agents[a].connection
        IN c.persona.enable_history
              => Len(c.local_history)
                    <= Max(c.persona.summary_threshold, c.persona.history_message_limit) + 3

\* the positions of the terminal events of task t on a channel
TerminalEvents(chan, t) ==
    {i \in 1..Len(chan) : chan[i].task = t /\ chan[i].type \in {"Complete", "Error"}}

\* C28: a request task that was not cancelled puts one terminal event on its
\* Session's channel when it ends, a Complete or an Error, and never a second
\* one.
C28_OneTerminalEvent ==
    \A a \in DOMAIN agents :
        \A t \in DOMAIN tasks :
            (tasks[t].kind = "send" /\ ~tasks[t].aborted)
                => /\ Cardinality(TerminalEvents(agents[a].chan, t)) <= 1
                   /\ (tasks[t].pc = "done" /\ tasks[t].agent = a /\ agents[a].is_waiting)
                         => Cardinality(TerminalEvents(agents[a].chan, t)) = 1

\* is_waiting false and no task handle
Idle(agent) == ~agent.is_waiting /\ agent.active_task = 0

\* C29: when the backend calls come to an end and poll_channels keeps being
\* called, a Session that waits for a reply is Idle again later on, and an
\* Idle Session stays Idle until a send on it.
C29_ReturnsToIdle ==
    /\ \A a \in 1..MaxAgents :
          (a \in DOMAIN agents /\ ~Idle(agents[a]))
              ~> (a \notin DOMAIN agents \/ Idle(agents[a]))
    /\ [][\A a \in DOMAIN agents \cap DOMAIN agents' :
             (Idle(agents[a]) /\ ~Idle(agents'[a]))
                 => /\ Len(tasks') = Len(tasks) + 1
                    /\ tasks'[Len(tasks')].kind = "send"
                    /\ tasks'[Len(tasks')].agent = a]_vars

\* the Session is Idle after a request that replaced a cancelled one has ended
\* and its events were drained
C29_Witness ==
    \E a \in DOMAIN agents : \E t \in DOMAIN tasks : \E u \in DOMAIN tasks :
        /\ Idle(agents[a])
        /\ agents[a].chan = << >>
        /\ tasks[t].agent = a /\ tasks[t].kind = "send" /\ tasks[t].aborted
        /\ tasks[u].agent = a /\ tasks[u].kind = "send" /\ ~tasks[u].aborted
        /\ t < u
        /\ tasks[u].pc = "done"

\* the send tasks of Session a up to task u, u included
SendsUpTo(a, u) ==
    {t \in 1..u : tasks[t].agent = a /\ tasks[t].kind = "send"}

\* the position in a transcript of its n-th prompt line, 0 when there is none
PromptPosition(messages, n) ==
    LET found == {i \in 1..Len(messages) :
                     /\ StartsWithPrompt(messages[i])
                     /\ Cardinality({k \in 1..i : StartsWithPrompt(messages[k])}) = n}
    IN IF found = {} THEN 0 ELSE CHOOSE i \in found : TRUE

\* FragmentText marks every fragment with its request
FragmentTag(t) == "t" \o ToString(t)

\* C30: when a send replaced a cancelled request of the same Session, no
\* transcript entry after the prompt line of the new send holds a fragment of
\* the cancelled request.
C30_NoStaleDelta ==
    \A a \in DOMAIN agents :
        \A u \in DOMAIN tasks : \A t \in DOMAIN tasks :
            ( /\ t < u
              /\ t \in SendsUpTo(a, u) /\ u \in SendsUpTo(a, u)
              /\ tasks[t].aborted )
            => LET messages == agents[a].messages
                   i == PromptPosition(messages, Cardinality(SendsUpTo(a, u)))
               IN i > 0 =>
                     \A j \in (i + 1)..Len(messages) :
                         FragmentTag(t) \notin Range(messages[j])

\* C31: the text of every Complete event on a channel is the concatenation,
\* in order, of the fragments its request sent as Delta events.
C31_FullReplyIsDeltas ==
    \A a \in DOMAIN agents :
        \A i \in 1..Len(agents[a].chan) :
            LET chunk == agents[a].chan[i]
            IN chunk.type = "Complete"
                  => chunk.text = tasks[chunk.task].full_reply

\* the positions of the non-system messages of a log that a record's
\* recent_messages, the end of the log, leaves out
Omitted(log, record) ==
    {i \in 2..(Len(log) - Len(record.recent_messages)) : log[i].role # "system"}

\* C32: when a task writes the record of its persona, every non-system message
\* of the task's log that the record leaves out is in an archive snapshot.
C32_OmittedIsArchived ==
    [][\A n \in PersonaNames :
          (historyFile'[n] # historyFile[n] /\ historyFile'[n].exists)
              => \A t \in DOMAIN tasks :
                    (tasks'[t] # tasks[t] /\ tasks[t].conv.persona.name = n)
                        => LET log == tasks'[t].conv.local_history
                           IN \A i \in Omitted(log, historyFile'[n]) :
                                 /\ archives'[n].count > 0
                                 /\ log[i] \in Range(archives'[n].newest)]_vars

\* C33: the keys of the Session map are the ids of the order list, the order
\* list has no id twice, the active id is none or a key of the map, and it is
\* none exactly when the registry is empty.
C33_RegistryShape ==
    /\ DOMAIN agents = Range(agent_order)
    /\ \A i \in 1..Len(agent_order) : \A j \in 1..Len(agent_order) :
          agent_order[i] = agent_order[j] => i = j
    /\ current_agent = 0 \/ current_agent \in DOMAIN agents
    /\ current_agent = 0 <=> agent_order = << >>

\* a Session that was not the last was removed, another was opened with the
\* id set free, and the active Session was cycled to the middle of the list
C33_Witness ==
    /\ Len(agent_order) = 3
    /\ agent_order[3] < agent_order[1]
    /\ current_agent = agent_order[2]

\* C34: while a send task of a Session on the Claude backend waits for the
\* vendor's answer, the payload it sent has the persona's system prompt in the
\* system field, every user and assistant message of the task's log in order
\* in its message list, and the text of every summary message of the log in
\* the system field or in the message list.
C34_ClaudeCarriesContext ==
    \A t \in DOMAIN tasks :
        ( /\ tasks[t].kind = "send"
          /\ tasks[t].pc = "http"
          /\ tasks[t].conv.persona.api_provider = "claude" )
        => LET log == tasks[t].conv.local_history
               payload == AdaptRequest(tasks[t].request)
           IN /\ payload.system # << >>
              /\ IsPrefix(tasks[t].conv.persona.system_prompt, payload.system)
              /\ payload.messages = SelectSeq(log, IsNotSystem)
              /\ \A i \in 2..Len(log) :
                    IsSummaryMessage(log[i])
                        => \/ \E j \in 1..Len(payload.messages) :
                                 payload.messages[j].content = log[i].content
                           \/ \E k \in 1..Len(payload.system) :
                                 SubSeq(payload.system, k, Len(payload.system))
                                     = log[i].content

\* C35: a save that replaces the record of a persona never writes a smaller
\* total_message_count than the record had.
C35_TotalNeverDecreases ==
    [][\A n \in PersonaNames :
          (historyFile[n].exists /\ historyFile[n].valid /\ historyFile'[n].exists)
              => historyFile'[n].total_message_count >= historyFile[n].total_message_count]_vars

\* C36: every log holds at most one summary message, and a summary message is
\* the second message of its log, directly after the system prompt.
C36_OneSummary ==
    \A c \in Conversations :
        /\ SummaryIndexes(c.local_history) \subseteq {2}
        /\ c.local_history[1] = Msg("system", c.persona.system_prompt)

\* after two compactions the record of the persona holds a summary, and the
\* log is the one a fresh Session builds from that record
C36_Witness ==
    /\ archives[conv.persona.name].count >= 2
    /\ historyFile[conv.persona.name].exists
    /\ historyFile[conv.persona.name].summary.some
    /\ conv = NewWithoutOutput(conv.persona, historyFile[conv.persona.name])
    /\ SummaryIndexes(conv.local_history) = {2}
    /\ Len(conv.local_history) > 2

\* C37: when ClearHistoryCommand has removed a file for the persona of the
\* active Session, the record that Session creation loads for that persona
\* does not exist, and a Session created from it has the system prompt alone
\* in its log.
C37_ClearedMeansFresh ==
    [][\A a \in DOMAIN agents :
          LET persona == agents[a].connection.persona
              path == ClearPath(persona.name)
          IN ( /\ a = current_agent
               /\ historyFile[path].exists
               /\ ~historyFile'[path].exists )
             => /\ ~historyFile'[persona.name].exists
                /\ NewWithoutOutput(persona, historyFile'[persona.name]).local_history
                      = << Msg("system", persona.system_prompt) >>]_vars

====
